---- MODULE Spec2Model ----
(***************************************************************************)
(* State-machine model of trains/singleTask/IMDER.py: IMDER.do_train (the  *)
(* epoch loop, gradient accumulation, checkpointing, best-improvement rule *)
(* and early stop) and IMDER.do_test (one evaluation pass), including the  *)
(* modality-availability scheduling duplicated in both.                    *)
(*                                                                         *)
(* Decimal quantities (losses, metrics, best_valid) are fixed-point        *)
(* records [i |-> whole part, f |-> fraction in units of 1e-7], because    *)
(* 1e8 and 1e-6 do not fit one 32-bit integer scale.  The ratios of the    *)
(* scheduler are kept as numerator/denominator records with the float      *)
(* outcomes nan and inf of a division by 0.0.                              *)
(***************************************************************************)
EXTENDS Integers, Sequences, FiniteSets, TLC

\* ------------------------------------------------------------------ bounds
MaxN == 16          \* largest number of batches in a split
MaxK == 3           \* largest update_epochs
MaxEpochs == 32     \* the epoch loop is cut after this many epochs

\* --------------------------------------------------------- decimal numbers
Scale == 10000000   \* fraction digits kept: units of 1e-7

Dec(i, f) == [i |-> i, f |-> f]

DecLeq(a, b) == a.i < b.i \/ (a.i = b.i /\ a.f <= b.f)

DecLt(a, b) == a.i < b.i \/ (a.i = b.i /\ a.f < b.f)

DecAdd(a, d) == IF a.f + d >= Scale THEN Dec(a.i + 1, a.f + d - Scale) ELSE Dec(a.i, a.f + d)

DecSub(a, d) == IF a.f - d < 0 THEN Dec(a.i - 1, a.f - d + Scale) ELSE Dec(a.i, a.f - d)

\* round(x, 4): nearest multiple of 1e-4 (1000 units); an exact tie goes to
\* the even fourth digit.
Round4(x) ==
    LET q == x.f \div 1000
        r == x.f % 1000
        up == r > 500 \/ (r = 500 /\ q % 2 = 1)
        g == IF up THEN (q + 1) * 1000 ELSE q * 1000
    IN  IF g >= Scale THEN Dec(x.i + 1, g - Scale) ELSE Dec(x.i, g)

Eps == 10           \* 1e-6 in units of 1e-7

BestInitMin == Dec(100000000, 0)   \* 1e8

BestInitMax == Dec(0, 0)           \* 0

\* ------------------------------------------------------------- scheduler
miss_2 == <<10, 20, 30, 50, 70, 90, 100>>   \* percent: 0.1 0.2 0.3 0.5 0.7 0.9 1.0

miss_1 == <<10, 20, 30, 20, 10, 0, 0>>      \* percent: 0.1 0.2 0.3 0.2 0.1 0.0 0.0

\* int(x): truncation toward zero of num/den (den > 0).
IntTrunc(num, den) == IF num >= 0 THEN num \div den ELSE -((-num) \div den)

\* int(mr*10 - 1), mr given in hundredths.
MrIndex(mr) == IntTrunc(mr * 10 - 100, 100)

\* Python list indexing of a 7-entry list: -7..-1 count from the end,
\* anything outside -7..6 raises IndexError.
IndexOk(idx) == idx >= -7 /\ idx <= 6

ListGet(list, idx) == IF idx >= 0 THEN list[idx + 1] ELSE list[idx + 8]

\* np.round(n / 10): round half to even.
NpRound10(n) ==
    LET q == n \div 10
        r == n % 10
    IN  IF r > 5 \/ (r = 5 /\ q % 2 = 1) THEN q + 1 ELSE q

\* np.round(len(dataloader) / 10) * 10
NormTotal(n) == NpRound10(n) * 10

\* count / np.float64(total): 0/0.0 is nan, c/0.0 is inf (a warning, no
\* exception), otherwise the quotient.
Ratio(count, total) ==
    IF total = 0
    THEN [kind |-> IF count = 0 THEN "nan" ELSE "inf", num |-> count, den |-> 0]
    ELSE [kind |-> "num", num |-> count, den |-> total]

\* ratio < target (target in percent); every comparison with nan is False,
\* inf is below nothing.
RatioLt(r, target) == r.kind = "num" /\ r.num * 100 < target * r.den

\* Variant of TrainDecide that tests the one-missing ratio first.
TrainDecide_OneFirst(m2, m1, n, idx) ==
    IF RatioLt(Ratio(m1, NormTotal(n)), ListGet(miss_1, idx)) THEN 2
    ELSE IF RatioLt(Ratio(m2, NormTotal(n)), ListGet(miss_2, idx)) THEN 1
    ELSE 3

\* do_train's if / elif / else: the num_modal passed to the model.
TrainDecide(m2, m1, n, idx) ==
    IF RatioLt(Ratio(m2, NormTotal(n)), ListGet(miss_2, idx)) THEN 1
    ELSE IF RatioLt(Ratio(m1, NormTotal(n)), ListGet(miss_1, idx)) THEN 2
    ELSE 3

\* Variant of TestDecide that compares the two-missing ratio with <=.
TestDecide_Le(m2, m1, n, idx) ==
    IF Ratio(m2, NormTotal(n)).kind = "num"
       /\ m2 * 100 <= ListGet(miss_2, idx) * NormTotal(n) THEN 1
    ELSE IF RatioLt(Ratio(m1, NormTotal(n)), ListGet(miss_1, idx)) THEN 2
    ELSE 3

\* do_test's copy of the same if / elif / else.
TestDecide(m2, m1, n, idx) ==
    IF RatioLt(Ratio(m2, NormTotal(n)), ListGet(miss_2, idx)) THEN 1
    ELSE IF RatioLt(Ratio(m1, NormTotal(n)), ListGet(miss_1, idx)) THEN 2
    ELSE 3

\* ------------------------------------------------------------ the inputs
\* args.mr in hundredths: 0, 0.1 .. 0.7 (table entries 0..6) and 0.8.
MrValues == {0, 10, 20, 30, 40, 50, 60, 70, 80}

\* What one evaluation pass can produce: the mean loss before rounding and
\* the value of the key metric.
Outcomes ==
    { [loss |-> Dec(0, 5000000), metric |-> Dec(0, 5000000)],
      [loss |-> Dec(0, 4999990), metric |-> Dec(0, 5000010)],
      [loss |-> Dec(0, 4999600), metric |-> Dec(0, 5000005)],
      [loss |-> Dec(0, 4980000), metric |-> Dec(0, 5020000)],
      [loss |-> Dec(0, 5004000), metric |-> Dec(0, 0)] }

\* Runs that exercise the passes: every split length, missing rate and
\* accumulation length, stopping at the first epoch without improvement.
PassConfigs ==
    { [n_train |-> n, n_valid |-> n, n_test |-> n, mr |-> m, update_epochs |-> k,
       KeyEval |-> "Loss", early_stop |-> 1, return_epoch_results |-> FALSE] :
      n \in 0..MaxN, m \in MrValues, k \in 1..MaxK }

\* Runs that exercise the epoch loop: short passes, every patience, both
\* directions of the key metric, with and without per-epoch results.
LoopConfigs ==
    { [n_train |-> 1, n_valid |-> nv, n_test |-> nt, mr |-> 40, update_epochs |-> 1,
       KeyEval |-> ke, early_stop |-> es, return_epoch_results |-> rer] :
      nv \in {0, 1}, nt \in {0, 1}, ke \in {"Loss", "Acc"}, es \in {1, 3, 8},
      rer \in BOOLEAN }

\* Runs with per-epoch results over splits of different lengths, long enough
\* for the counters to move in every pass.
MixedConfigs ==
    { [n_train |-> 10, n_valid |-> 6, n_test |-> 15, mr |-> m, update_epochs |-> 2,
       KeyEval |-> "Acc", early_stop |-> 2, return_epoch_results |-> TRUE] :
      m \in {10, 40} }

Configs == PassConfigs \cup LoopConfigs \cup MixedConfigs

NoDec == Dec(-1, 0)          \* no value bound yet

NoResults == [Loss |-> NoDec, Metric |-> NoDec]

\* ------------------------------------------------------------- the state
VARIABLES
    cfg,            \* args, the dataloader lengths and return_epoch_results
    pc,             \* position in do_train
    ev,             \* position in do_test: "none" (not running) or "loop"
    abort,          \* the exception that ended the run, "" if none
    epochs, best_epoch, best_valid, cur_valid,
    miss_one, miss_two, left_epochs,
    b,              \* batches of the train pass processed so far
    tr_seq,         \* num_modal of each batch of the train pass, in order
    tr_div0,        \* the train pass has divided by a zero total
    e_miss_one, e_miss_two,   \* do_test's miss_one, miss_two
    eb,             \* batches of the evaluation pass processed so far
    ev_seq,         \* num_modal of each batch of the evaluation pass
    ev_div0,        \* the evaluation pass has divided by a zero total
    grad_buf,       \* <<epoch, batch>> of the gradients held in .grad
    opt_steps,      \* gradients applied by each optimizer.step() of the pass
    val_results,    \* do_test's result for the validation split
    val_eval_loss,  \* do_test's eval_loss of that pass before rounding
    sched_metric,   \* the argument of the last scheduler.step()
    epoch_ckpts,    \* epochs whose 'pt/<epoch>.pth' was written, in order
    best_ckpt,      \* epoch of the last write of args.model_save_path, 0 if none
    old_best,       \* best_valid as the last isBetter comparison read it
    steps,          \* steps of the current epoch completed so far
    er              \* lengths of epoch_results' train, valid and test lists

vars == <<cfg, pc, ev, abort, epochs, best_epoch, best_valid, cur_valid,
          miss_one, miss_two, left_epochs, b, tr_seq, tr_div0,
          e_miss_one, e_miss_two, eb, ev_seq, ev_div0, grad_buf, opt_steps,
          val_results, val_eval_loss, sched_metric, epoch_ckpts, best_ckpt,
          old_best, steps, er>>

trainVars == <<miss_one, miss_two, left_epochs, b, tr_seq, tr_div0, grad_buf, opt_steps>>

evalVars == <<ev, e_miss_one, e_miss_two, eb, ev_seq, ev_div0>>

bestVars == <<best_epoch, best_valid, best_ckpt, old_best>>

valVars == <<val_results, val_eval_loss, cur_valid, sched_metric>>

min_or_max(c) == IF c.KeyEval \in {"Loss"} THEN "min" ELSE "max"

\* do_train up to the load of the pretrained weights.
InitOf(c) ==
    /\ cfg = c
    /\ pc = "load"
    /\ ev = "none"
    /\ abort = ""
    /\ epochs = 0
    /\ best_epoch = 0
    /\ best_valid = (IF min_or_max(c) = "min" THEN BestInitMin ELSE BestInitMax)
    /\ cur_valid = NoDec
    /\ miss_one = 0
    /\ miss_two = 0
    /\ left_epochs = 0
    /\ b = 0
    /\ tr_seq = <<>>
    /\ tr_div0 = FALSE
    /\ e_miss_one = 0
    /\ e_miss_two = 0
    /\ eb = 0
    /\ ev_seq = <<>>
    /\ ev_div0 = FALSE
    /\ grad_buf = {}
    /\ opt_steps = <<>>
    /\ val_results = NoResults
    /\ val_eval_loss = NoDec
    /\ sched_metric = NoDec
    /\ epoch_ckpts = <<>>
    /\ best_ckpt = 0
    /\ old_best = NoDec
    /\ steps = <<>>
    /\ er = [train |-> 0, valid |-> 0, test |-> 0]

Init == \E c \in Configs : InitOf(c)

\* An exception propagates out of do_train.
Raise(e) == pc' = "aborted" /\ abort' = e

\* Variant of LoadPretrained that records the failed load and goes on.
LoadPretrained_Swallowed ==
    /\ pc = "load"
    /\ \E ok \in BOOLEAN :
          /\ pc' = "loop_top"
          /\ abort' = (IF ok THEN abort ELSE "pretrained")
    /\ UNCHANGED <<cfg, epochs, steps, er, epoch_ckpts>>
    /\ UNCHANGED <<trainVars, evalVars, bestVars, valVars>>

\* torch.load of 'pt/pretrained-<dataset>.pth' and the merge into the model;
\* the load raises when the file is missing or unreadable.
LoadPretrained ==
    /\ pc = "load"
    /\ \E ok \in BOOLEAN :
          IF ok THEN pc' = "loop_top" /\ abort' = abort
                ELSE Raise("pretrained")
    /\ UNCHANGED <<cfg, epochs, steps, er, epoch_ckpts>>
    /\ UNCHANGED <<trainVars, evalVars, bestVars, valVars>>

\* Variant of EpochBegin whose counters were initialised before the loop and
\* are not set again.
EpochBegin_NoReset ==
    /\ pc = "loop_top"
    /\ epochs < MaxEpochs
    /\ epochs' = epochs + 1
    /\ left_epochs' = cfg.update_epochs
    /\ b' = 0
    /\ tr_seq' = <<>>
    /\ tr_div0' = FALSE
    /\ opt_steps' = <<>>
    /\ steps' = <<>>
    /\ pc' = "train"
    /\ UNCHANGED <<cfg, abort, grad_buf, er, epoch_ckpts, miss_one, miss_two>>
    /\ UNCHANGED <<evalVars, bestVars, valVars>>

\* while True: epochs += 1 and the initialisation of the train pass.
EpochBegin ==
    /\ pc = "loop_top"
    /\ epochs < MaxEpochs
    /\ epochs' = epochs + 1
    /\ miss_one' = 0
    /\ miss_two' = 0
    /\ left_epochs' = cfg.update_epochs
    /\ b' = 0
    /\ tr_seq' = <<>>
    /\ tr_div0' = FALSE
    /\ opt_steps' = <<>>
    /\ steps' = <<>>
    /\ pc' = "train"
    /\ UNCHANGED <<cfg, abort, grad_buf, er, epoch_ckpts>>
    /\ UNCHANGED <<evalVars, bestVars, valVars>>

\* Variant of TrainBatch whose second test is an "if", not an "elif": a
\* batch that took the two-missing branch can take the one-missing branch too.
TrainBatch_IfIf ==
    /\ pc = "train"
    /\ b < cfg.n_train
    /\ LET zeroed == IF left_epochs = cfg.update_epochs THEN {} ELSE grad_buf
           left   == left_epochs - 1
           idx    == MrIndex(cfg.mr)
           d      == TrainDecide(miss_two, miss_one, cfg.n_train, idx)
           also   == RatioLt(Ratio(miss_one, NormTotal(cfg.n_train)), ListGet(miss_1, idx))
           grads  == zeroed \cup {<<epochs, b + 1>>}
       IN  /\ tr_div0' = (tr_div0 \/ NormTotal(cfg.n_train) = 0)
           /\ IF ~IndexOk(idx)
              THEN /\ Raise("IndexError")
                   /\ grad_buf' = zeroed
                   /\ left_epochs' = left
                   /\ UNCHANGED <<miss_one, miss_two, b, tr_seq, opt_steps>>
              ELSE /\ miss_two' = (IF d = 1 THEN miss_two + 1 ELSE miss_two)
                   /\ miss_one' = (IF d = 2 \/ also THEN miss_one + 1 ELSE miss_one)
                   /\ tr_seq' = Append(tr_seq, IF d = 1 /\ also THEN 2 ELSE d)
                   /\ grad_buf' = grads
                   /\ opt_steps' = (IF left = 0 THEN Append(opt_steps, grads) ELSE opt_steps)
                   /\ left_epochs' = (IF left = 0 THEN cfg.update_epochs ELSE left)
                   /\ b' = b + 1
                   /\ UNCHANGED <<pc, abort>>
    /\ UNCHANGED <<cfg, epochs, steps, er, epoch_ckpts>>
    /\ UNCHANGED <<evalVars, bestVars, valVars>>

\* Variant of ZeroGrad that never clears the gradients.
ZeroGrad_Never(left, k, buf) == buf

\* if left_epochs == self.args.update_epochs: optimizer.zero_grad()
ZeroGrad(left, k, buf) == IF left = k THEN {} ELSE buf

\* One iteration of the loop over dataloader['train'].
TrainBatch ==
    /\ pc = "train"
    /\ b < cfg.n_train
    /\ LET zeroed == ZeroGrad(left_epochs, cfg.update_epochs, grad_buf)
           left   == left_epochs - 1
           idx    == MrIndex(cfg.mr)
           d      == TrainDecide(miss_two, miss_one, cfg.n_train, idx)
           grads  == zeroed \cup {<<epochs, b + 1>>}
       IN  /\ tr_div0' = (tr_div0 \/ NormTotal(cfg.n_train) = 0)
           /\ IF ~IndexOk(idx)
              THEN /\ Raise("IndexError")
                   /\ grad_buf' = zeroed
                   /\ left_epochs' = left
                   /\ UNCHANGED <<miss_one, miss_two, b, tr_seq, opt_steps>>
              ELSE /\ miss_two' = (IF d = 1 THEN miss_two + 1 ELSE miss_two)
                   /\ miss_one' = (IF d = 2 THEN miss_one + 1 ELSE miss_one)
                   /\ tr_seq' = Append(tr_seq, d)
                   /\ grad_buf' = grads
                   /\ opt_steps' = (IF left = 0 THEN Append(opt_steps, grads) ELSE opt_steps)
                   /\ left_epochs' = (IF left = 0 THEN cfg.update_epochs ELSE left)
                   /\ b' = b + 1
                   /\ UNCHANGED <<pc, abort>>
    /\ UNCHANGED <<cfg, epochs, steps, er, epoch_ckpts>>
    /\ UNCHANGED <<evalVars, bestVars, valVars>>

\* After the loop: the step guarded by "if not left_epochs", the mean train
\* loss and the log line.
TrainEnd ==
    /\ pc = "train"
    /\ b = cfg.n_train
    /\ opt_steps' = (IF left_epochs = 0 THEN Append(opt_steps, grad_buf) ELSE opt_steps)
    /\ IF cfg.n_train = 0
       THEN Raise("ZeroDivisionError") /\ UNCHANGED steps
       ELSE pc' = "valid" /\ steps' = Append(steps, "train") /\ UNCHANGED abort
    /\ UNCHANGED <<cfg, epochs, er, epoch_ckpts>>
    /\ UNCHANGED <<miss_one, miss_two, left_epochs, b, tr_seq, tr_div0, grad_buf>>
    /\ UNCHANGED <<evalVars, bestVars, valVars>>

\* len(dataloader) of the do_test call that do_train is at.
EvalLen == IF pc = "valid" THEN cfg.n_valid ELSE cfg.n_test

\* Entry of do_test: model.eval() and the fresh counters.
EvalBegin ==
    /\ pc \in {"valid", "test", "test2"}
    /\ ev = "none"
    /\ ev' = "loop"
    /\ e_miss_one' = 0
    /\ e_miss_two' = 0
    /\ eb' = 0
    /\ ev_seq' = <<>>
    /\ ev_div0' = FALSE
    /\ UNCHANGED <<cfg, pc, abort, epochs, steps, er, epoch_ckpts>>
    /\ UNCHANGED <<trainVars, bestVars, valVars>>

\* One iteration of the loop over the dataloader in do_test.
EvalBatch ==
    /\ ev = "loop"
    /\ eb < EvalLen
    /\ LET idx == MrIndex(cfg.mr)
           d   == TestDecide(e_miss_two, e_miss_one, EvalLen, idx)
       IN  /\ ev_div0' = (ev_div0 \/ NormTotal(EvalLen) = 0)
           /\ IF ~IndexOk(idx)
              THEN /\ Raise("IndexError")
                   /\ ev' = "none"
                   /\ UNCHANGED <<e_miss_one, e_miss_two, eb, ev_seq>>
              ELSE /\ e_miss_two' = (IF d = 1 THEN e_miss_two + 1 ELSE e_miss_two)
                   /\ e_miss_one' = (IF d = 2 THEN e_miss_one + 1 ELSE e_miss_one)
                   /\ ev_seq' = Append(ev_seq, d)
                   /\ eb' = eb + 1
                   /\ UNCHANGED <<pc, abort, ev>>
    /\ UNCHANGED <<cfg, epochs, steps, er, epoch_ckpts>>
    /\ UNCHANGED <<trainVars, bestVars, valVars>>

\* What do_test returns for a pass whose mean loss and key metric are o:
\* eval_results["Loss"] = round(eval_loss, 4).
EvalResults(o) == [Loss |-> Round4(o.loss), Metric |-> o.metric]

\* After the loop of do_test: the mean loss, the metrics, the rounded Loss
\* and the return to the call site in do_train.
EvalEnd ==
    /\ ev = "loop"
    /\ eb = EvalLen
    /\ ev' = "none"
    /\ IF EvalLen = 0
       THEN /\ Raise("ZeroDivisionError")
            /\ UNCHANGED <<steps, er, val_results, val_eval_loss>>
       ELSE \E o \in Outcomes :
            /\ UNCHANGED abort
            /\ IF pc = "valid"
               THEN /\ val_results' = EvalResults(o)
                    /\ val_eval_loss' = o.loss
                    /\ pc' = "test"
                    /\ steps' = Append(steps, "valid")
                    /\ UNCHANGED er
               ELSE /\ UNCHANGED <<val_results, val_eval_loss>>
                    /\ steps' = Append(steps, "test")
                    /\ IF pc = "test"
                       THEN pc' = "lr_step" /\ UNCHANGED er
                       ELSE pc' = "early_stop" /\ er' = [er EXCEPT !.test = @ + 1]
    /\ UNCHANGED <<cfg, epochs, epoch_ckpts, cur_valid, sched_metric>>
    /\ UNCHANGED <<e_miss_one, e_miss_two, eb, ev_seq, ev_div0>>
    /\ UNCHANGED <<trainVars, bestVars>>

\* cur_valid = val_results[KeyEval]; scheduler.step(val_results['Loss']).
LrStep ==
    /\ pc = "lr_step"
    /\ cur_valid' = (IF cfg.KeyEval = "Loss" THEN val_results.Loss ELSE val_results.Metric)
    /\ sched_metric' = val_results.Loss
    /\ steps' = Append(steps, "lr")
    /\ pc' = "save_epoch"
    /\ UNCHANGED <<cfg, abort, epochs, er, epoch_ckpts, val_results, val_eval_loss>>
    /\ UNCHANGED <<trainVars, evalVars, bestVars>>

\* Variant of SaveEpoch that names the file after best_epoch.
SaveEpoch_BestName ==
    /\ pc = "save_epoch"
    /\ epoch_ckpts' = Append(epoch_ckpts, best_epoch)
    /\ steps' = Append(steps, "save_epoch")
    /\ pc' = "best"
    /\ UNCHANGED <<cfg, abort, epochs, er>>
    /\ UNCHANGED <<trainVars, evalVars, bestVars, valVars>>

\* torch.save(model.state_dict(), 'pt/' + str(epochs) + '.pth')
SaveEpoch ==
    /\ pc = "save_epoch"
    /\ epoch_ckpts' = Append(epoch_ckpts, epochs)
    /\ steps' = Append(steps, "save_epoch")
    /\ pc' = "best"
    /\ UNCHANGED <<cfg, abort, epochs, er>>
    /\ UNCHANGED <<trainVars, evalVars, bestVars, valVars>>

\* Variant of isBetter with strict comparisons.
isBetter_Strict(mode, cur, best) ==
    IF mode = "min" THEN DecLt(cur, DecSub(best, Eps)) ELSE DecLt(DecAdd(best, Eps), cur)

\* isBetter of do_train.
isBetter(mode, cur, best) ==
    IF mode = "min" THEN DecLeq(cur, DecSub(best, Eps)) ELSE DecLeq(DecAdd(best, Eps), cur)

\* Variant of SaveBest that takes cur_valid as best_valid in every epoch.
SaveBest_AlwaysValue ==
    /\ pc = "best"
    /\ old_best' = best_valid
    /\ best_valid' = cur_valid
    /\ IF isBetter(min_or_max(cfg), cur_valid, best_valid)
       THEN /\ best_epoch' = epochs
            /\ best_ckpt' = epochs
       ELSE UNCHANGED <<best_epoch, best_ckpt>>
    /\ steps' = Append(steps, "best")
    /\ pc' = "epoch_results"
    /\ UNCHANGED <<cfg, abort, epochs, er, epoch_ckpts>>
    /\ UNCHANGED <<trainVars, evalVars, valVars>>

\* if isBetter: best_valid, best_epoch = cur_valid, epochs and the write of
\* args.model_save_path.
SaveBest ==
    /\ pc = "best"
    /\ old_best' = best_valid
    /\ IF isBetter(min_or_max(cfg), cur_valid, best_valid)
       THEN /\ best_valid' = cur_valid
            /\ best_epoch' = epochs
            /\ best_ckpt' = epochs
       ELSE UNCHANGED <<best_valid, best_epoch, best_ckpt>>
    /\ steps' = Append(steps, "best")
    /\ pc' = "epoch_results"
    /\ UNCHANGED <<cfg, abort, epochs, er, epoch_ckpts>>
    /\ UNCHANGED <<trainVars, evalVars, valVars>>

\* Variant of EpochResults that reuses test_results instead of calling
\* do_test again.
EpochResults_NoRetest ==
    /\ pc = "epoch_results"
    /\ er' = (IF cfg.return_epoch_results
              THEN [er EXCEPT !.train = @ + 1, !.valid = @ + 1, !.test = @ + 1]
              ELSE er)
    /\ pc' = "early_stop"
    /\ UNCHANGED <<cfg, abort, epochs, steps, epoch_ckpts>>
    /\ UNCHANGED <<trainVars, evalVars, bestVars, valVars>>

\* if return_epoch_results: the appends to epoch_results and the call of
\* do_test on dataloader['test'].
EpochResults ==
    /\ pc = "epoch_results"
    /\ IF cfg.return_epoch_results
       THEN /\ er' = [er EXCEPT !.train = @ + 1, !.valid = @ + 1]
            /\ pc' = "test2"
       ELSE /\ UNCHANGED er
            /\ pc' = "early_stop"
    /\ UNCHANGED <<cfg, abort, epochs, steps, epoch_ckpts>>
    /\ UNCHANGED <<trainVars, evalVars, bestVars, valVars>>

\* Variant of ShouldStop that stops only once a best model exists.
ShouldStop_NeedsBest(e, be, es) == be > 0 /\ e - be >= es

\* Variant of ShouldStop that waits one epoch longer.
ShouldStop_Late(e, be, es) == e - be > es

\* The early-stop test: epochs - best_epoch >= self.args.early_stop.
ShouldStop(e, be, es) == e - be >= es

\* if epochs - best_epoch >= early_stop: return.  The values of the epoch
\* that nothing reads again (val_results, cur_valid, the scheduler's
\* argument) are dropped here.
EarlyStop ==
    /\ pc = "early_stop"
    /\ pc' = (IF ShouldStop(epochs, best_epoch, cfg.early_stop) THEN "stopped" ELSE "loop_top")
    /\ steps' = Append(steps, "early_stop")
    /\ val_results' = NoResults
    /\ val_eval_loss' = NoDec
    /\ cur_valid' = NoDec
    /\ sched_metric' = NoDec
    /\ old_best' = NoDec
    /\ UNCHANGED <<cfg, abort, epochs, er, epoch_ckpts, best_epoch, best_valid, best_ckpt>>
    /\ UNCHANGED <<trainVars, evalVars>>

Next ==
    \/ LoadPretrained
    \/ EpochBegin
    \/ TrainBatch
    \/ TrainEnd
    \/ EvalBegin
    \/ EvalBatch
    \/ EvalEnd
    \/ LrStep
    \/ SaveEpoch
    \/ SaveBest
    \/ EpochResults
    \/ EarlyStop

Spec == Init /\ [][Next]_vars

\* do_train is sequential code: whenever it has a next step it takes it.
SpecLive == Init /\ [][Next]_vars /\ WF_vars(Next)

TypeOK ==
    /\ pc \in {"load", "loop_top", "train", "valid", "test", "lr_step", "save_epoch",
               "best", "epoch_results", "test2", "early_stop", "stopped", "aborted"}
    /\ ev \in {"none", "loop"}
    /\ epochs \in 0..MaxEpochs
    /\ best_epoch \in 0..MaxEpochs

\* ---------------------------------------------------------------- claims
\* Positions of do_train after the train pass of the current epoch.
TrainDone == pc \in {"valid", "test", "lr_step", "save_epoch", "best",
                     "epoch_results", "test2", "early_stop"}

\* Positions after the isBetter block of the current epoch, before the
\* early-stop check.
AfterBest == pc \in {"epoch_results", "test2", "early_stop"}

\* Positions after cur_valid and scheduler.step of the current epoch.
AfterLr == pc \in {"save_epoch", "best"} \/ AfterBest

\* An epoch has run to its end.
EpochComplete == pc \in {"loop_top", "stopped"} /\ epochs >= 1

Written == AfterBest /\ best_epoch = epochs

\* cur improves on best by more than 1e-6 in the favourable direction.
StrictlyBetter(mode, cur, best) ==
    IF mode = "min" THEN DecLt(DecAdd(cur, Eps), best) ELSE DecLt(DecAdd(best, Eps), cur)

\* cur improves on best by 1e-6 or more in the favourable direction.
BetterByEps(mode, cur, best) ==
    IF mode = "min" THEN ~DecLt(best, DecAdd(cur, Eps)) ELSE ~DecLt(cur, DecAdd(best, Eps))

\* C1 as stated: the best checkpoint is written (best_valid and best_epoch
\* updated) only when cur_valid beats the previous best by strictly more
\* than 1e-6.
C1_OnlyStrictlyBetter ==
    Written => StrictlyBetter(min_or_max(cfg), cur_valid, old_best)

\* C1 amended: the best checkpoint is written, and best_valid, best_epoch
\* updated, exactly when cur_valid beats the previous best by at least 1e-6
\* (the bound included); otherwise nothing of the best state changes.
C1_WriteIffBetterByEps ==
    AfterBest =>
        IF BetterByEps(min_or_max(cfg), cur_valid, old_best)
        THEN best_epoch = epochs /\ best_ckpt = epochs /\ best_valid = cur_valid
        ELSE best_epoch < epochs /\ best_ckpt < epochs /\ best_valid = old_best

\* A write for an improvement of exactly 1e-6 over a best of an earlier epoch.
C1_Witness ==
    /\ Written
    /\ epochs >= 2
    /\ min_or_max(cfg) = "max"
    /\ cur_valid = DecAdd(old_best, Eps)
    /\ best_ckpt = epochs

CeilDiv(a, d) == (a + d - 1) \div d

\* Every batch of the pass is in the gradients some optimizer step applied.
AllApplied ==
    \A j \in 1..cfg.n_train : \E s \in 1..Len(opt_steps) : <<epochs, j>> \in opt_steps[s]

\* C2: after a train pass of N batches with update_epochs = k the optimizer
\* has stepped ceil(N/k) times and every batch's gradient was applied by a
\* step of the pass, the tail of N mod k batches included.
C2_TailStepped ==
    TrainDone => Len(opt_steps) = CeilDiv(cfg.n_train, cfg.update_epochs) /\ AllApplied

\* The curriculum with normalised total t and table entry i (0..6): the
\* num_modal of the j-th batch of a pass.
Quota2(t, i) == CeilDiv(miss_2[i + 1] * t, 100)

Quota1(t, i) == CeilDiv(miss_1[i + 1] * t, 100)

Curriculum(j, t, i) ==
    IF j <= Quota2(t, i) THEN 1
    ELSE IF j <= Quota2(t, i) + Quota1(t, i) THEN 2
    ELSE 3

FollowsCurriculum(seq, t, i) == \A j \in 1..Len(seq) : seq[j] = Curriculum(j, t, i)

ValidIndex == MrIndex(cfg.mr) \in 0..6

\* C3: a pass whose normalised total is 0 (1..5 batches) divides by no zero
\* and schedules its batches as the curriculum with the raw total N does, in
\* do_train and in do_test.
C3_DegenerateUsesRawTotal ==
    /\ (ValidIndex /\ epochs >= 1 /\ NormTotal(cfg.n_train) = 0) =>
           ~tr_div0 /\ FollowsCurriculum(tr_seq, cfg.n_train, MrIndex(cfg.mr))
    /\ (ValidIndex /\ ev = "loop" /\ NormTotal(EvalLen) = 0) =>
           ~ev_div0 /\ FollowsCurriculum(ev_seq, EvalLen, MrIndex(cfg.mr))

\* C4: the run is Stopped only with epochs - best_epoch >= early_stop, and
\* it goes on past an epoch's check only with epochs - best_epoch <
\* early_stop, so it stops at the first epoch that reaches the patience;
\* with early_stop = 8 and a last improvement at epoch 5 that is epoch 13.
C4_StopsAtFirstExpiry ==
    /\ pc = "stopped" => epochs - best_epoch >= cfg.early_stop
    /\ (pc = "loop_top" /\ epochs >= 1) => epochs - best_epoch < cfg.early_stop
    /\ (pc \in {"train", "valid", "test", "lr_step", "save_epoch", "best"} /\ epochs >= 2) =>
           (epochs - 1) - best_epoch < cfg.early_stop
    /\ (pc = "stopped" /\ cfg.early_stop = 8 /\ best_epoch = 5) => epochs = 13

C4_Witness == pc = "stopped" /\ cfg.early_stop = 8 /\ best_epoch = 5 /\ epochs = 13

NonDecreasing(seq) == \A j \in 1..Len(seq) : \A h \in 1..j : seq[h] <= seq[j]

\* C5: with a normalised total T > 0 and a table entry 0..6, the batches of
\* a pass get, in order, num_modal 1 for the first ceil(t2*T), 2 for the
\* next ceil(t1*T) and 3 for the rest, never fewer than an earlier batch;
\* mr = 0.4 with 10 batches gives 1 1 1 1 1 2 2 3 3 3.
C5_Curriculum ==
    /\ (ValidIndex /\ epochs >= 1 /\ NormTotal(cfg.n_train) > 0) =>
           /\ FollowsCurriculum(tr_seq, NormTotal(cfg.n_train), MrIndex(cfg.mr))
           /\ NonDecreasing(tr_seq)
           /\ Len(tr_seq) = b
    /\ (ValidIndex /\ ev = "loop" /\ NormTotal(EvalLen) > 0) =>
           /\ FollowsCurriculum(ev_seq, NormTotal(EvalLen), MrIndex(cfg.mr))
           /\ NonDecreasing(ev_seq)
           /\ Len(ev_seq) = eb
    /\ (cfg.mr = 40 /\ cfg.n_train = 10 /\ b = 10) => tr_seq = <<1, 1, 1, 1, 1, 2, 2, 3, 3, 3>>
    /\ (cfg.mr = 40 /\ ev = "loop" /\ EvalLen = 10 /\ eb = 10) =>
           ev_seq = <<1, 1, 1, 1, 1, 2, 2, 3, 3, 3>>

C5_Witness ==
    /\ cfg.mr = 40
    /\ cfg.n_train = 10
    /\ tr_seq = <<1, 1, 1, 1, 1, 2, 2, 3, 3, 3>>
    /\ ev = "loop"
    /\ ev_seq = <<1, 1, 1, 1, 1, 2, 2, 3, 3, 3>>

\* C6: with a table index outside 0..6 no batch is ever scheduled, neither
\* by do_train nor by do_test (the run aborts first).
C6_BadIndexSchedulesNothing ==
    ~ValidIndex => tr_seq = <<>> /\ ev_seq = <<>>

\* C7: the loss that do_train compares and hands to the learning-rate
\* scheduler is the validation pass's mean loss at full precision.
C7_FullPrecisionCompared ==
    AfterLr =>
        /\ sched_metric = val_eval_loss
        /\ cfg.KeyEval = "Loss" => cur_valid = val_eval_loss

StepsStated == <<"train", "valid", "test", "lr", "save_epoch", "best", "early_stop">>

StepsWithResults == <<"train", "valid", "test", "lr", "save_epoch", "best", "test", "early_stop">>

IsPrefix(p, q) == Len(p) <= Len(q) /\ \A j \in 1..Len(p) : p[j] = q[j]

\* C8 as stated: every completed epoch, whatever return_epoch_results is,
\* is train, valid, test, lr, per-epoch save, best check, early-stop check
\* with nothing between the best check and the early-stop check.
C8_SameOrderAlways == EpochComplete => steps = StepsStated

\* C8 amended: an epoch runs its steps in the stated order when
\* return_epoch_results is false; when it is true a second test pass runs
\* between the best-checkpoint step and the early-stop check.
C8_OrderByMode ==
    LET want == IF cfg.return_epoch_results THEN StepsWithResults ELSE StepsStated
    IN  /\ IsPrefix(steps, want)
        /\ EpochComplete => steps = want

C8_Witness == pc = "stopped" /\ cfg.return_epoch_results /\ steps = StepsWithResults

\* C9: 'pt/<e>.pth' is written once for every epoch, after its validation
\* and test passes and before its early-stop check: the writes are 1..epochs
\* at every epoch boundary and once the epoch is past the save, and
\* 1..epochs-1 before it.
C9_OneCheckpointPerEpoch ==
    /\ \A j \in 1..Len(epoch_ckpts) : epoch_ckpts[j] = j
    /\ (EpochComplete \/ pc = "best" \/ AfterBest) => Len(epoch_ckpts) = epochs
    /\ pc \in {"train", "valid", "test", "lr_step", "save_epoch"} => Len(epoch_ckpts) = epochs - 1
    /\ (pc = "best" \/ AfterBest) =>
           IsPrefix(<<"train", "valid", "test", "lr", "save_epoch">>, steps)

\* The last epoch of a run that stopped without improving still has its file.
C9_Witness ==
    /\ pc = "stopped"
    /\ epochs >= 2
    /\ best_epoch < epochs
    /\ Len(epoch_ckpts) = epochs
    /\ epoch_ckpts[epochs] = epochs

\* C10: when the load of the pretrained weights fails the run aborts with
\* epochs = 0 and without any pass, optimizer step or checkpoint write; no
\* epoch starts unless the load succeeded.
C10_PretrainedFailureFirst ==
    /\ abort = "pretrained" =>
           /\ pc = "aborted"
           /\ epochs = 0
           /\ steps = <<>>
           /\ b = 0 /\ tr_seq = <<>>
           /\ ev = "none" /\ eb = 0 /\ ev_seq = <<>>
           /\ opt_steps = <<>> /\ grad_buf = {}
           /\ epoch_ckpts = <<>> /\ best_ckpt = 0
    /\ pc = "load" => epochs = 0

C10_Witness == pc = "aborted" /\ abort = "pretrained" /\ epochs = 0

\* C11: a split of zero batches does not end the run with a division by
\* zero, neither in the scheduler nor in the mean loss after the pass.
C11_ZeroSplitGuarded == abort # "ZeroDivisionError"

RECURSIVE CountOf(_, _)
\* How many entries of seq are v.
CountOf(seq, v) ==
    IF seq = <<>> THEN 0
    ELSE CountOf(Tail(seq), v) + (IF Head(seq) = v THEN 1 ELSE 0)

\* The counters of a pass against the num_modal of its batches so far.
CountersMatch(m2, m1, seq, done, n) ==
    /\ Len(seq) = done
    /\ \A j \in 1..Len(seq) : seq[j] \in {1, 2, 3}
    /\ m2 = CountOf(seq, 1)
    /\ m1 = CountOf(seq, 2)
    /\ m2 + m1 <= done
    /\ done <= n

\* One batch moved the counters: exactly one of them by 1 with num_modal 1
\* or 2, or none with num_modal 3.
BatchMoves(m2, m1, m2n, m1n, d) ==
    \/ d = 1 /\ m2n = m2 + 1 /\ m1n = m1
    \/ d = 2 /\ m2n = m2 /\ m1n = m1 + 1
    \/ d = 3 /\ m2n = m2 /\ m1n = m1

C12_State ==
    /\ (ValidIndex /\ epochs >= 1) => CountersMatch(miss_two, miss_one, tr_seq, b, cfg.n_train)
    /\ (ValidIndex /\ ev = "loop") => CountersMatch(e_miss_two, e_miss_one, ev_seq, eb, EvalLen)

C12_Step ==
    /\ (ValidIndex /\ pc = "train" /\ b' = b + 1) =>
           BatchMoves(miss_two, miss_one, miss_two', miss_one', tr_seq'[b'])
    /\ (ValidIndex /\ pc = "train" /\ pc' = "train" /\ b' = b) =>
           miss_two' = miss_two /\ miss_one' = miss_one
    /\ (ValidIndex /\ ev = "loop" /\ eb' = eb + 1) =>
           BatchMoves(e_miss_two, e_miss_one, e_miss_two', e_miss_one', ev_seq'[eb'])

\* C12: within a pass, after b batches miss_two + miss_one <= b <= N; every
\* batch moves at most one counter, by exactly 1, and none ever decreases;
\* num_modal is 1, 2 or 3, and it is 1 exactly when miss_two moved, 2
\* exactly when miss_one moved, 3 exactly when neither did.
C12_CountersFollowBatches == []C12_State /\ [][C12_Step]_vars

C12_Witness ==
    /\ ValidIndex
    /\ pc = "train"
    /\ b = cfg.n_train
    /\ miss_two >= 1
    /\ miss_one >= 1
    /\ miss_two + miss_one < b
    /\ tr_seq[b] = 3

\* The num_modal that belongs to position j of a pass of n batches with
\* table entry i, whatever ran before the pass.
PositionModal(j, n, i) ==
    IF NormTotal(n) = 0 THEN 3 ELSE Curriculum(j, NormTotal(n), i)

\* C14: miss_one and miss_two are 0 when a pass starts (train, validation,
\* test and the second test pass), and in every epoch the batch at position
\* j of a split gets the num_modal of that position alone.
C14_FreshCountersEveryPass ==
    /\ (pc = "train" /\ b = 0) => miss_one = 0 /\ miss_two = 0
    /\ (ev = "loop" /\ eb = 0) => e_miss_one = 0 /\ e_miss_two = 0
    /\ (ValidIndex /\ epochs >= 1) =>
           \A j \in 1..Len(tr_seq) : tr_seq[j] = PositionModal(j, cfg.n_train, MrIndex(cfg.mr))
    /\ (ValidIndex /\ ev = "loop") =>
           \A j \in 1..Len(ev_seq) : ev_seq[j] = PositionModal(j, EvalLen, MrIndex(cfg.mr))

\* The second test pass of a later epoch, after passes that moved the counters.
C14_Witness ==
    /\ epochs >= 2
    /\ pc = "test2"
    /\ ev = "loop"
    /\ eb = cfg.n_test
    /\ e_miss_two >= 1
    /\ miss_two >= 1
    /\ cfg.n_valid # cfg.n_test

\* C15: over splits of the same length a train pass and an evaluation pass
\* give the same num_modal to every position and have the same counters
\* after every batch.
C15_TrainEvalAgree ==
    (ValidIndex /\ ev = "loop" /\ EvalLen = cfg.n_train /\ EvalLen >= 1) =>
        /\ eb <= Len(tr_seq)
        /\ ev_seq = SubSeq(tr_seq, 1, eb)
        /\ e_miss_two = CountOf(SubSeq(tr_seq, 1, eb), 1)
        /\ e_miss_one = CountOf(SubSeq(tr_seq, 1, eb), 2)
        /\ eb = EvalLen => e_miss_two = miss_two /\ e_miss_one = miss_one

C15_Witness ==
    /\ ValidIndex
    /\ ev = "loop"
    /\ EvalLen = cfg.n_train
    /\ eb = EvalLen
    /\ eb >= 6
    /\ e_miss_two = miss_two
    /\ e_miss_one = miss_one
    /\ miss_two >= 1
    /\ miss_one >= 1

C16_State ==
    /\ 0 <= best_epoch
    /\ best_epoch <= epochs
    /\ best_ckpt = best_epoch
    /\ best_epoch = 0 =>
           best_valid = (IF min_or_max(cfg) = "min" THEN BestInitMin ELSE BestInitMax)

C16_Step ==
    /\ (best_valid' # best_valid) <=> (best_epoch' # best_epoch)
    /\ (best_epoch' # best_epoch) <=> (best_ckpt' # best_ckpt)
    /\ (best_epoch' # best_epoch) =>
           /\ pc = "best"
           /\ IsPrefix(<<"train", "valid">>, steps)
           /\ best_epoch' = epochs
           /\ best_valid' = cur_valid
    /\ IF min_or_max(cfg) = "min" THEN DecLeq(best_valid', best_valid)
                                  ELSE DecLeq(best_valid, best_valid')

\* C16: 0 <= best_epoch <= epochs; best_valid and best_epoch change only
\* together, only after the epoch's validation pass and exactly when the
\* best checkpoint is written, so best_epoch is the epoch of the last such
\* write (0 if none); best_valid never moves in the unfavourable direction.
C16_BestStateConsistent == []C16_State /\ [][C16_Step]_vars

C16_Witness ==
    /\ AfterBest
    /\ min_or_max(cfg) = "min"
    /\ epochs >= 2
    /\ best_epoch = epochs
    /\ best_ckpt = epochs
    /\ best_valid # old_best
    /\ old_best # BestInitMin

\* C17: every run of do_train ends: it reaches Stopped, or an exception
\* ended it before.
C17_Terminates == <>(pc \in {"stopped", "aborted"})

\* A run that kept improving as late as the patience allows, and stopped.
C17_Witness == pc = "stopped" /\ cfg.early_stop = 8 /\ epochs = 32 /\ best_epoch = 24

\* C18: every optimizer step applies gradients of the current pass only, of
\* at most update_epochs batches, and no batch's gradient is in two steps;
\* once a pass has processed a batch the gradients held are of that pass.
C18_NoStaleGradients ==
    /\ \A s \in 1..Len(opt_steps) :
           /\ opt_steps[s] \subseteq {<<epochs, j>> : j \in 1..b}
           /\ Cardinality(opt_steps[s]) <= cfg.update_epochs
           /\ \A t \in 1..Len(opt_steps) : t # s => opt_steps[s] \cap opt_steps[t] = {}
    /\ (pc = "train" /\ b >= 1 /\ abort = "") =>
           /\ \A g \in grad_buf : g[1] = epochs
           /\ Cardinality(grad_buf) <= cfg.update_epochs

\* A later epoch of a pass with two full groups and a tail of one batch.
C18_Witness ==
    /\ TrainDone
    /\ epochs >= 2
    /\ cfg.update_epochs = 2
    /\ cfg.n_train = 5
    /\ Len(opt_steps) = 2
    /\ grad_buf = {<<epochs, 5>>}

\* C19: a run that reached Stopped has written the best-model checkpoint at
\* least once (best_epoch >= 1).
C19_BestExistsAtStop == pc = "stopped" => best_epoch >= 1 /\ best_ckpt >= 1

====
